---- MODULE Spec2Model ----
(***************************************************************************)
(* The popup of the Rook Lite browser extension (App.tsx): the history     *)
(* store kept in React state and mirrored in localStorage, the mount-time  *)
(* load or migration, and the asynchronous analyzePage sequence with the   *)
(* user's navigation interleaved at its await points.                      *)
(***************************************************************************)
EXTENDS Integers, Sequences, FiniteSets, TLC

(***************************************************************************)
(* Bounds of the model.                                                    *)
(***************************************************************************)
\* Date.now() ranges over 0..MaxClock.
MaxClock == 1
\* "Analyze page" is clicked only while the history holds fewer entries.
MaxHistory == 2
\* Longest legacy list found in storage when the popup first opens.
MaxLegacy == 3
\* Longest text typed into the URL field of the prompt panel.
MaxUrlLen == 2
\* Most elements (headings, paragraphs, buttons, links) of a page.
MaxElements == 38

(***************************************************************************)
(* JavaScript values, tagged by their typeof.  An object is a TLA+ record  *)
(* of its own properties; reading a missing property yields undefined.     *)
(***************************************************************************)
Undefined == <<"undefined">>
Null == <<"null">>
Str(s) == <<"string", s>>
Num(n) == <<"number", n>>
Arr(s) == <<"array", s>>
Obj(r) == <<"object", r>>

IsObject(v) == v[1] = "object"
IsArray(v) == v[1] = "array"
\* raw.key on a value that is neither null nor undefined
Prop(v, k) == IF IsObject(v) /\ k \in DOMAIN v[2] THEN v[2][k] ELSE Undefined
\* x ?? d
Nullish(x, d) == IF x = Undefined \/ x = Null THEN d ELSE x
\* String(x) for the values responses carry here
JsString(x) ==
  CASE x[1] = "string" -> x
    [] x[1] = "number" -> Str(ToString(x[2]))
    [] x[1] = "object" -> Str("[object Object]")
    [] x[1] = "array" /\ x[2] = <<>> -> Str("")
    [] x[1] = "array" /\ Len(x[2]) = 1 /\ x[2][1][1] = "string" -> x[2][1]
    [] x[1] = "null" -> Str("null")
    [] OTHER -> Str("undefined")

HISTORY_KEY == "rook-lite-history-v2"
LEGACY_KEY == "rook-lite-history"

\* function normalizeAnalysis(raw): throws a TypeError on null or undefined
normalizeAnalysisThrows(raw) == raw = Null \/ raw = Undefined

normalizeAnalysis(raw) ==
  [ asset_type |-> JsString(Nullish(Prop(raw, "asset_type"), Str("unknown"))),
    overview |-> JsString(Nullish(Prop(raw, "overview"), Str(""))),
    target_audience |-> JsString(Nullish(Prop(raw, "target_audience"), Str(""))),
    sections |-> IF IsArray(Prop(raw, "sections")) THEN Prop(raw, "sections") ELSE Arr(<<>>),
    verdicts |-> IF Prop(raw, "verdicts")[1] \in {"object", "array"}
                 THEN Prop(raw, "verdicts") ELSE Obj(<<>>),
    score |-> IF Prop(raw, "score")[1] \in {"object", "array"}
              THEN Prop(raw, "score") ELSE Obj([value |-> Num(0)]) ]

(***************************************************************************)
(* JSON text is a sequence of tokens: "[", one token per element, "]".     *)
(* An element's token carries the properties whose value is defined;       *)
(* JSON.stringify drops the others.                                        *)
(***************************************************************************)
DefinedProps(e) == [k \in {p \in DOMAIN e : e[p] # Undefined} |-> e[k]]

JSONstringify(list) ==
  <<"[">> \o [i \in 1..Len(list) |-> <<"{}", DefinedProps(list[i])>>] \o <<"]">>

JSONparse(text) == [i \in 1..(Len(text) - 2) |-> text[i + 1][2]]

\* a check that takes the text of an empty array for a missing record
TruthyUnlessEmptyList(stored) == stored # Null /\ Len(stored) > 2

\* if (stored): getItem returns null for a missing key, and the empty
\* string is the only falsy string
Truthy(stored) == stored # Null /\ Len(stored) > 0

(***************************************************************************)
(* The environment: response bodies, random suffixes, tabs.                *)
(***************************************************************************)
\* a response body that lacks some fields and carries others
RawPartial ==
  Obj([ asset_type |-> Str("landing"),
        overview |-> Num(5),
        sections |-> Arr(<<Obj([title |-> Str("SEO"), insights |-> Arr(<<Str("ok")>>)])>>),
        score |-> Obj([value |-> Num(8)]) ])
RawEmpty == Obj(<<>>)
\* what response.json() can resolve to
RawBodies == {RawPartial, Null}
\* Math.random().toString(36).slice(2, 7)
RandomSuffixes == {"k3x9q", "0a7bz"}
\* results the legacy popup stored, without id or createdAt
LegacyItems == {normalizeAnalysis(RawEmpty)}

RECURSIVE SeqsUpTo(_, _)
SeqsUpTo(S, n) ==
  IF n = 0 THEN {<<>>}
  ELSE LET shorter == SeqsUpTo(S, n - 1)
       IN shorter \cup {Append(s, x) : s \in {t \in shorter : Len(t) = n - 1}, x \in S}

Range(s) == {s[i] : i \in 1..Len(s)}
Ids(list) == {list[i].id : i \in 1..Len(list)}

VARIABLES
  localStorage,       \* key -> JSON text, or Null when the key is absent
  now,                \* the value Date.now() returned last
  mounted,            \* the popup is open and its mount effect has run
  history,            \* useState<HistoryAnalysis[]>
  analysis,           \* useState<AnalysisResult | null>
  loading,            \* useState(false)
  error,              \* useState<string | null>
  activeView,         \* useState<"home" | "history" | "analysis">
  analysisBackView,   \* useState<"home" | "history">
  task,               \* the analyzePage invocation in flight and what it closed over
  lastOp,             \* what the handler that ran last did to the store or the analysis
  promptPanel,        \* useState of showPromptPanel, promptUrl and promptNote
  historyPage,        \* useState of the HistoryPage component while it is rendered
  response,           \* a server response handed to normalizeAnalysis
  normalized,         \* what normalizeAnalysis returned for it
  document,           \* the page the content script runs in
  reply               \* what the content script's listener passed to sendResponse

appVars == <<localStorage, now, mounted, history, analysis, loading, error,
             activeView, analysisBackView, task, lastOp>>
vars == <<localStorage, now, mounted, history, analysis, loading, error,
          activeView, analysisBackView, task, lastOp, promptPanel, historyPage,
          response, normalized, document, reply>>

\* lastOp after a handler that neither touches the store nor ends an analysis
Other == [op |-> "other"]

\* no analyzePage invocation is pending
Idle == [pc |-> "idle", history |-> <<>>, tab |-> Undefined]

\* the state of a freshly constructed App component
FreshState(h, a, l, e, v, b, t) ==
  /\ h = <<>> /\ a = Null /\ l = FALSE /\ e = Null
  /\ v = "home" /\ b = "home" /\ t = Idle

\* useState(false), useState(""), useState(""): a string is the sequence
\* of its characters
FreshPanel == [showPromptPanel |-> FALSE, promptUrl |-> <<>>, promptNote |-> <<>>]

\* HistoryPage's useState(false), useState([]), useState(false), useState(null)
FreshPage == [deleteMode |-> FALSE, selectedIds |-> <<>>, showConfirm |-> FALSE,
              localNotice |-> Null]

\* no call of normalizeAnalysis is being followed
NoCall == response = Undefined /\ normalized = Undefined
\* no content script is being followed
NoPage == document = Null /\ reply = Undefined

Init ==
  /\ localStorage \in
       { [k \in {HISTORY_KEY, LEGACY_KEY} |-> IF k = LEGACY_KEY THEN old ELSE Null]
         : old \in {Null} \cup {JSONstringify(l) : l \in SeqsUpTo(LegacyItems, MaxLegacy)} }
  /\ now = 0
  /\ mounted = FALSE
  /\ FreshState(history, analysis, loading, error, activeView, analysisBackView, task)
  /\ lastOp = [op |-> "init"]
  /\ promptPanel = FreshPanel
  /\ historyPage = FreshPage
  /\ NoCall
  /\ NoPage

\* successive Date.now() readings of one handler: n values, never decreasing
\* and none before the last reading; time passes between handlers as well
ClockReadings(n) ==
  {r \in [1..n -> now..MaxClock] : \A i \in 1..(n - 1) : r[i] <= r[i + 1]}

(***************************************************************************)
(* useEffect(() => {...}, []): load the current-schema record, or migrate  *)
(* the legacy one.                                                         *)
(***************************************************************************)
\* parsed.map((item, index) => ({...item, id, createdAt})); r holds the two
\* clock readings of each item, the id is the template string's parts
migrateItems(parsed, r) ==
  [i \in 1..Len(parsed) |->
     [id |-> <<"migrated", r[2 * i - 1], i - 1>>,
      createdAt |-> Num(r[2 * i] - (i - 1))] @@ parsed[i]]

Mount ==
  /\ ~mounted
  /\ mounted' = TRUE
  /\ LET storedV2 == localStorage[HISTORY_KEY]
         oldStored == localStorage[LEGACY_KEY]
     IN IF Truthy(storedV2)
        THEN /\ history' = JSONparse(storedV2)
             /\ lastOp' = [op |-> "mount", reads |-> <<HISTORY_KEY>>, migrated |-> FALSE]
             /\ UNCHANGED <<localStorage, now>>
        ELSE IF Truthy(oldStored)
        THEN \E r \in ClockReadings(2 * Len(JSONparse(oldStored))) :
               LET parsed == JSONparse(oldStored)
                   migrated == migrateItems(parsed, r)
               IN /\ history' = migrated
                  /\ localStorage' = [localStorage EXCEPT ![HISTORY_KEY] = JSONstringify(migrated)]
                  /\ now' = IF Len(parsed) = 0 THEN now ELSE r[2 * Len(parsed)]
                  /\ lastOp' = [op |-> "mount", reads |-> <<HISTORY_KEY, LEGACY_KEY>>,
                                migrated |-> TRUE]
        ELSE /\ lastOp' = [op |-> "mount", reads |-> <<HISTORY_KEY, LEGACY_KEY>>,
                           migrated |-> FALSE]
             /\ UNCHANGED <<localStorage, now, history>>
  /\ UNCHANGED <<analysis, loading, error, activeView, analysisBackView, task>>

\* the popup closes: its JavaScript context and every pending callback are
\* discarded, localStorage stays
Close ==
  /\ mounted
  /\ mounted' = FALSE
  /\ FreshState(history', analysis', loading', error', activeView', analysisBackView', task')
  /\ lastOp' = [op |-> "close"]
  /\ UNCHANGED <<localStorage, now>>

\* what App renders: the analysis view needs a non-null analysis
RenderedView ==
  IF activeView = "history" THEN "history"
  ELSE IF activeView = "analysis" /\ analysis # Null THEN "analysis"
  ELSE "home"

(***************************************************************************)
(* The history store's two writers.                                        *)
(***************************************************************************)
\* const entry = {...data, id: `h-${Date.now()}-${suffix}`, createdAt: Date.now()}
newEntry(data, r, suffix) ==
  [id |-> <<"h", r[1], suffix>>, createdAt |-> Num(r[2])] @@ data

\* const updated = [entry, ...history]
prependEntry(entry, list) == <<entry>> \o list

\* the filter with its negation lost: keeps the selected entries
filterKeepsSelected(list, ids) == SelectSeq(list, LAMBDA item : item.id \in ids)

\* the filter taking an empty id list for "everything"
filterEmptyMeansAll(list, ids) ==
  IF ids = {} THEN <<>> ELSE SelectSeq(list, LAMBDA item : item.id \notin ids)

\* history.filter((item) => !ids.includes(item.id))
filterOutIds(list, ids) == SelectSeq(list, LAMBDA item : item.id \notin ids)

\* ids a caller can pass: any ids of stored entries, or an id no entry has
ForeignId == <<"h", 0, "none0">>
DeletableIds == (SUBSET Ids(history)) \cup {{ForeignId}}

\* a delete that updates the list in memory and leaves the record alone
deleteHistoryByIdsInMemory(ids) ==
  /\ mounted
  /\ RenderedView = "history"
  /\ history' = filterOutIds(history, ids)
  /\ lastOp' = [op |-> "deleteMany", removed |-> Len(history) - Len(history')]
  /\ UNCHANGED <<localStorage, now, mounted, analysis, loading, error, activeView,
                 analysisBackView, task>>

deleteHistoryByIds(ids) ==
  /\ mounted
  /\ RenderedView = "history"
  /\ LET updated == filterOutIds(history, ids)
     IN /\ history' = updated
        /\ localStorage' = [localStorage EXCEPT ![HISTORY_KEY] = JSONstringify(updated)]
  /\ lastOp' = [op |-> "deleteMany", removed |-> Len(history) - Len(history')]
  /\ UNCHANGED <<now, mounted, analysis, loading, error, activeView, analysisBackView, task>>

\* an open handler that switches the view without setting the analysis
openViewOnly(item) ==
  /\ mounted
  /\ RenderedView = "history"
  /\ analysisBackView' = "history"
  /\ activeView' = "analysis"
  /\ error' = Null
  /\ lastOp' = Other
  /\ UNCHANGED <<localStorage, now, mounted, history, analysis, loading, task>>

\* openAnalysisFromHistory(item), from a row of the history page
openAnalysisFromHistory(item) ==
  /\ mounted
  /\ RenderedView = "history"
  /\ analysis' = Obj(item)
  /\ analysisBackView' = "history"
  /\ activeView' = "analysis"
  /\ error' = Null
  /\ lastOp' = Other
  /\ UNCHANGED <<localStorage, now, mounted, history, loading, task>>

\* the History button of the home view: setActiveView("history")
OpenHistoryPage ==
  /\ mounted
  /\ RenderedView = "home"
  /\ activeView' = "history"
  /\ lastOp' = Other
  /\ UNCHANGED <<localStorage, now, mounted, history, analysis, loading, error,
                 analysisBackView, task>>

\* HistoryPage onGoBack: setActiveView("home")
HistoryGoBack ==
  /\ mounted
  /\ RenderedView = "history"
  /\ activeView' = "home"
  /\ lastOp' = Other
  /\ UNCHANGED <<localStorage, now, mounted, history, analysis, loading, error,
                 analysisBackView, task>>

\* a Go Back that always leads home
AnalysisGoBackHome ==
  /\ mounted
  /\ RenderedView = "analysis"
  /\ activeView' = "home"
  /\ lastOp' = Other
  /\ UNCHANGED <<localStorage, now, mounted, history, analysis, loading, error,
                 analysisBackView, task>>

\* AnalysisView onGoBack: setActiveView(analysisBackView)
AnalysisGoBack ==
  /\ mounted
  /\ RenderedView = "analysis"
  /\ activeView' = analysisBackView
  /\ lastOp' = Other
  /\ UNCHANGED <<localStorage, now, mounted, history, analysis, loading, error,
                 analysisBackView, task>>

(***************************************************************************)
(* analyzePage: one action per stretch of code between two awaits.         *)
(***************************************************************************)
Falsy(v) == v \in {Undefined, Null, Num(0), Str("")}
\* v?.k
OptProp(v, k) == IF v = Undefined \/ v = Null THEN Undefined ELSE Prop(v, k)

\* what const [tab] = await chrome.tabs.query(...) can bind
TabResults ==
  { Undefined,
    Obj([url |-> Str("chrome://newtab/")]),
    Obj([id |-> Num(7), url |-> Str("https://a.example/")]) }
\* chrome.runtime.lastError inside the sendMessage callback
LastErrors ==
  { Undefined,
    Obj([message |-> Str("Could not establish connection.")]),
    Obj(<<>>) }
\* how the fetch promise settles
FetchOutcomes == { [rejected |-> TRUE, ok |-> FALSE], [rejected |-> FALSE, ok |-> FALSE],
                   [rejected |-> FALSE, ok |-> TRUE] }
\* response.json() rejects on a body that is not JSON
Unparseable == <<"SyntaxError">>

\* an Analyze button that stays enabled while loading
analyzePageWhileLoading ==
  /\ mounted
  /\ RenderedView = "home"
  /\ Len(history) < MaxHistory
  /\ loading' = TRUE
  /\ error' = Null
  /\ analysis' = Null
  /\ task' = [pc |-> "query", history |-> history, tab |-> Undefined]
  /\ lastOp' = Other
  /\ UNCHANGED <<localStorage, now, mounted, history, activeView, analysisBackView>>

\* the click on "Analyze page", up to the first await
\* an Analyze button that the analysis view offers as well
analyzePageFromAnalysisView ==
  /\ mounted
  /\ RenderedView \in {"home", "analysis"}
  /\ ~loading
  /\ Len(history) < MaxHistory
  /\ loading' = TRUE
  /\ error' = Null
  /\ analysis' = Null
  /\ task' = [pc |-> "query", history |-> history, tab |-> Undefined]
  /\ lastOp' = Other
  /\ UNCHANGED <<localStorage, now, mounted, history, activeView, analysisBackView>>

analyzePage ==
  /\ mounted
  /\ RenderedView = "home"
  /\ ~loading
  /\ Len(history) < MaxHistory
  /\ loading' = TRUE
  /\ error' = Null
  /\ analysis' = Null
  /\ task' = [pc |-> "query", history |-> history, tab |-> Undefined]
  /\ lastOp' = Other
  /\ UNCHANGED <<localStorage, now, mounted, history, activeView, analysisBackView>>

\* a !tab?.id branch that returns without setLoading(false)
TabsQueryResolvedLeavesLoading(tab) ==
  /\ task.pc = "query"
  /\ IF Falsy(OptProp(tab, "id"))
     THEN /\ error' = Str("No active tab found")
          /\ task' = Idle
          /\ lastOp' = [op |-> "noActiveTab"]
     ELSE /\ task' = [task EXCEPT !.pc = "inject", !.tab = tab]
          /\ lastOp' = Other
          /\ UNCHANGED error
  /\ UNCHANGED <<localStorage, now, mounted, history, analysis, loading, activeView,
                 analysisBackView>>

\* chrome.tabs.query resolved: the !tab?.id check, then executeScript is called
TabsQueryResolved(tab) ==
  /\ task.pc = "query"
  /\ IF Falsy(OptProp(tab, "id"))
     THEN /\ error' = Str("No active tab found")
          /\ loading' = FALSE
          /\ task' = Idle
          /\ lastOp' = [op |-> "noActiveTab"]
     ELSE /\ task' = [task EXCEPT !.pc = "inject", !.tab = tab]
          /\ lastOp' = Other
          /\ UNCHANGED <<error, loading>>
  /\ UNCHANGED <<localStorage, now, mounted, history, analysis, activeView, analysisBackView>>

\* an awaited promise rejected outside any try: analyzePage ends there
AwaitRejected(at) ==
  /\ task.pc = at
  /\ task' = Idle
  /\ lastOp' = [op |-> "rejected", at |-> at]
  /\ UNCHANGED <<localStorage, now, mounted, history, analysis, loading, error,
                 activeView, analysisBackView>>

TabsQueryRejected == AwaitRejected("query")

ExecuteScriptRejected == AwaitRejected("inject")

\* executeScript resolved: chrome.tabs.sendMessage is called
ExecuteScriptResolved ==
  /\ task.pc = "inject"
  /\ task' = [task EXCEPT !.pc = "message"]
  /\ lastOp' = Other
  /\ UNCHANGED <<localStorage, now, mounted, history, analysis, loading, error,
                 activeView, analysisBackView>>

\* the sendMessage callback, up to the await of fetch
MessageCallback(lastError) ==
  /\ task.pc = "message"
  /\ IF lastError # Undefined
     THEN /\ error' = Nullish(Prop(lastError, "message"), Str("Extension error"))
          /\ loading' = FALSE
          /\ task' = Idle
          /\ lastOp' = [op |-> "extractorUnreachable"]
     ELSE /\ task' = [task EXCEPT !.pc = "fetch"]
          /\ lastOp' = Other
          /\ UNCHANGED <<error, loading>>
  /\ UNCHANGED <<localStorage, now, mounted, history, analysis, activeView, analysisBackView>>

\* a catch block that also resets the current analysis
BackendFailureResetsAnalysis(cause) ==
  /\ error' = Str("Backend error while analyzing page")
  /\ loading' = FALSE
  /\ analysis' = Null
  /\ task' = Idle
  /\ lastOp' = [op |-> "backendError", cause |-> cause]
  /\ UNCHANGED <<localStorage, now, mounted, history, activeView, analysisBackView>>

\* a catch block that issues the request again instead of giving up
BackendFailureRetries(cause) ==
  /\ error' = Str("Backend error while analyzing page")
  /\ task' = [task EXCEPT !.pc = "fetch"]
  /\ lastOp' = [op |-> "backendError", cause |-> cause]
  /\ UNCHANGED <<localStorage, now, mounted, history, analysis, loading, activeView,
                 analysisBackView>>

\* catch { setError(...) } finally { setLoading(false) }
BackendFailure(cause) ==
  /\ error' = Str("Backend error while analyzing page")
  /\ loading' = FALSE
  /\ task' = Idle
  /\ lastOp' = [op |-> "backendError", cause |-> cause]
  /\ UNCHANGED <<localStorage, now, mounted, history, analysis, activeView, analysisBackView>>

\* a success path that stores a placeholder entry as soon as the status is
\* known, before the body is read and normalized
FetchSettledPersistsEarly(outcome) ==
  /\ task.pc = "fetch"
  /\ IF outcome.rejected THEN BackendFailure("network")
     ELSE IF ~outcome.ok THEN BackendFailure("status")
     ELSE \E r \in ClockReadings(2), suffix \in RandomSuffixes :
            LET updated == prependEntry(newEntry(normalizeAnalysis(RawEmpty), r, suffix),
                                        task.history)
            IN /\ task' = [task EXCEPT !.pc = "json"]
               /\ history' = updated
               /\ localStorage' = [localStorage EXCEPT ![HISTORY_KEY] = JSONstringify(updated)]
               /\ now' = r[2]
               /\ lastOp' = Other
               /\ UNCHANGED <<mounted, analysis, loading, error, activeView,
                              analysisBackView>>

\* fetch settled: the response.ok check, then response.json() is awaited
FetchSettled(outcome) ==
  /\ task.pc = "fetch"
  /\ IF outcome.rejected THEN BackendFailure("network")
     ELSE IF ~outcome.ok THEN BackendFailure("status")
     ELSE /\ task' = [task EXCEPT !.pc = "json"]
          /\ lastOp' = Other
          /\ UNCHANGED <<localStorage, now, mounted, history, analysis, loading, error,
                         activeView, analysisBackView>>

\* the history list saveToHistory spreads: the one analyzePage closed over
\* when it was called
savedOnto == task.history

\* response.json() settled: normalize, setAnalysis, saveToHistory, switch view
JsonSettled(body) ==
  /\ task.pc = "json"
  /\ IF body = Unparseable THEN BackendFailure("body")
     ELSE IF normalizeAnalysisThrows(body) THEN BackendFailure("shape")
     ELSE \E r \in ClockReadings(2), suffix \in RandomSuffixes :
            LET safe == normalizeAnalysis(body)
                entry == newEntry(safe, r, suffix)
                updated == prependEntry(entry, savedOnto)
            IN /\ analysis' = Obj(safe)
               /\ history' = updated
               /\ localStorage' = [localStorage EXCEPT ![HISTORY_KEY] = JSONstringify(updated)]
               /\ analysisBackView' = "home"
               /\ activeView' = "analysis"
               /\ loading' = FALSE
               /\ now' = r[2]
               /\ task' = Idle
               /\ lastOp' = [op |-> "analysisSaved"]
               /\ UNCHANGED <<mounted, error>>

\* what the popup's handlers other than those of the prompt panel leave alone
PanelUntouched == UNCHANGED <<promptPanel, historyPage, response, normalized, document, reply>>

Next ==
  \/ Mount /\ PanelUntouched
  \/ Close /\ PanelUntouched
  \/ \E ids \in DeletableIds : deleteHistoryByIds(ids) /\ PanelUntouched
  \/ \E item \in Range(history) : openAnalysisFromHistory(item) /\ PanelUntouched
  \/ OpenHistoryPage /\ PanelUntouched
  \/ HistoryGoBack /\ PanelUntouched
  \/ AnalysisGoBack /\ PanelUntouched
  \/ analyzePage /\ PanelUntouched
  \/ \E tab \in TabResults : TabsQueryResolved(tab) /\ PanelUntouched
  \/ TabsQueryRejected /\ PanelUntouched
  \/ ExecuteScriptResolved /\ PanelUntouched
  \/ ExecuteScriptRejected /\ PanelUntouched
  \/ \E lastError \in LastErrors : MessageCallback(lastError) /\ PanelUntouched
  \/ \E outcome \in FetchOutcomes : FetchSettled(outcome) /\ PanelUntouched
  \/ \E body \in RawBodies \cup {Unparseable} : JsonSettled(body) /\ PanelUntouched

Spec == Init /\ [][Next]_vars

(***************************************************************************)
(* The prompt panel of the home view ("Prompt any link").  A string is the *)
(* sequence of its characters; "x" stands for any letter.                  *)
(***************************************************************************)
Chars == {" ", "x", ":"}
\* what the URL field can hold
UrlTexts == SeqsUpTo(Chars, MaxUrlLen)
\* what the instruction field can hold
NoteTexts == {<<>>, <<"x">>}

\* a trim that leaves the string as it is
TrimNothing(s) == s

\* String.prototype.trim
RECURSIVE Trim(_)
Trim(s) ==
  IF s = <<>> THEN s
  ELSE IF Head(s) = " " THEN Trim(Tail(s))
  ELSE IF s[Len(s)] = " " THEN Trim(SubSeq(s, 1, Len(s) - 1))
  ELSE s

\* new URL(input) without a base throws unless the input, less the spaces
\* around it, starts with a scheme: a letter, more scheme characters, ":"
newURLThrows(input) ==
  LET s == Trim(input)
  IN ~ \E k \in 2..Len(s) : s[k] = ":" /\ \A j \in 1..(k - 1) : s[j] = "x"

\* the "Prompt any link" button: setShowPromptPanel((prev) => !prev)
TogglePromptPanel ==
  /\ mounted
  /\ RenderedView = "home"
  /\ promptPanel' = [promptPanel EXCEPT !.showPromptPanel = ~@]
  /\ lastOp' = Other
  /\ UNCHANGED <<localStorage, now, mounted, history, analysis, loading, error,
                 activeView, analysisBackView, task>>

\* onChange of the URL field
setPromptUrl(text) ==
  /\ mounted
  /\ RenderedView = "home"
  /\ promptPanel.showPromptPanel
  /\ promptPanel' = [promptPanel EXCEPT !.promptUrl = text]
  /\ lastOp' = Other
  /\ UNCHANGED <<localStorage, now, mounted, history, analysis, loading, error,
                 activeView, analysisBackView, task>>

\* onChange of the instruction field
setPromptNote(text) ==
  /\ mounted
  /\ RenderedView = "home"
  /\ promptPanel.showPromptPanel
  /\ promptPanel' = [promptPanel EXCEPT !.promptNote = text]
  /\ lastOp' = Other
  /\ UNCHANGED <<localStorage, now, mounted, history, analysis, loading, error,
                 activeView, analysisBackView, task>>

\* the "Analyze URL" button of the panel
handlePromptAnyLink ==
  /\ mounted
  /\ RenderedView = "home"
  /\ promptPanel.showPromptPanel
  /\ IF Trim(promptPanel.promptUrl) = <<>>
     THEN /\ error' = Str("Please enter a URL first")
          /\ UNCHANGED promptPanel
     ELSE IF newURLThrows(promptPanel.promptUrl)
     THEN /\ error' = Str("Enter a valid URL (example: https://example.com)")
          /\ UNCHANGED promptPanel
     ELSE /\ error' = Str("URL + Prompt mode UI is ready. Backend wiring is next.")
          /\ promptPanel' = [promptPanel EXCEPT !.promptNote = <<>>]
  /\ lastOp' = [op |-> "promptAnyLink"]
  /\ UNCHANGED <<localStorage, now, mounted, history, analysis, loading,
                 activeView, analysisBackView, task>>

\* what the handlers of the popup leave alone
PagesUntouched == UNCHANGED <<historyPage, response, normalized, document, reply>>

\* the popup with its prompt panel; the backend's answer is not followed
PromptNext ==
  \/ Mount /\ PanelUntouched
  \/ Close /\ promptPanel' = FreshPanel /\ PagesUntouched
  \/ \E item \in Range(history) : openAnalysisFromHistory(item) /\ PanelUntouched
  \/ OpenHistoryPage /\ PanelUntouched
  \/ HistoryGoBack /\ PanelUntouched
  \/ AnalysisGoBack /\ PanelUntouched
  \/ analyzePage /\ PanelUntouched
  \/ \E tab \in TabResults : TabsQueryResolved(tab) /\ PanelUntouched
  \/ ExecuteScriptResolved /\ PanelUntouched
  \/ \E lastError \in LastErrors : MessageCallback(lastError) /\ PanelUntouched
  \/ TogglePromptPanel /\ PagesUntouched
  \/ \E text \in UrlTexts : setPromptUrl(text) /\ PagesUntouched
  \/ \E text \in NoteTexts : setPromptNote(text) /\ PagesUntouched
  \/ handlePromptAnyLink /\ PagesUntouched

\* the popup opens on a store that holds no legacy list or a short one
PromptInit ==
  /\ Init
  /\ localStorage[LEGACY_KEY] # Null => Len(JSONparse(localStorage[LEGACY_KEY])) <= 1

PromptSpec == PromptInit /\ [][PromptNext]_vars

(***************************************************************************)
(* The history page (HistoryPage): delete mode, the selection, the confirm *)
(* dialog and the notice.  The component's state lives while the page is   *)
(* rendered.                                                               *)
(***************************************************************************)
SelectNotice == Str("Select analyses first.")

\* a toggle that always appends
toggledAppends(prev, id) == Append(prev, id)

\* prev.includes(id) ? prev.filter((x) => x !== id) : [...prev, id]
toggled(prev, id) ==
  IF id \in Range(prev) THEN SelectSeq(prev, LAMBDA x : x # id) ELSE Append(prev, id)

\* togglePick(id): a row or its checkbox, in delete mode
togglePick(id) ==
  /\ mounted
  /\ RenderedView = "history"
  /\ historyPage.deleteMode
  /\ historyPage' = [historyPage EXCEPT !.selectedIds = toggled(@, id)]
  /\ lastOp' = [op |-> "togglePick"]
  /\ UNCHANGED <<localStorage, now, mounted, history, analysis, loading, error,
                 activeView, analysisBackView, task>>

\* a Delete button that opens the dialog whatever is selected
handleDeleteButtonUnchecked ==
  /\ mounted
  /\ RenderedView = "history"
  /\ IF ~historyPage.deleteMode
     THEN historyPage' = [historyPage EXCEPT !.localNotice = Null, !.deleteMode = TRUE,
                                             !.selectedIds = <<>>]
     ELSE historyPage' = [historyPage EXCEPT !.localNotice = Null, !.showConfirm = TRUE]
  /\ lastOp' = [op |-> "deleteButton"]
  /\ UNCHANGED <<localStorage, now, mounted, history, analysis, loading, error,
                 activeView, analysisBackView, task>>

\* handleDeleteButton: the page's Delete button
handleDeleteButton ==
  /\ mounted
  /\ RenderedView = "history"
  /\ IF ~historyPage.deleteMode
     THEN historyPage' = [historyPage EXCEPT !.localNotice = Null, !.deleteMode = TRUE,
                                             !.selectedIds = <<>>]
     ELSE IF Len(historyPage.selectedIds) = 0
     THEN historyPage' = [historyPage EXCEPT !.localNotice = SelectNotice]
     ELSE historyPage' = [historyPage EXCEPT !.localNotice = Null, !.showConfirm = TRUE]
  /\ lastOp' = [op |-> "deleteButton"]
  /\ UNCHANGED <<localStorage, now, mounted, history, analysis, loading, error,
                 activeView, analysisBackView, task>>

\* a confirm that deletes and leaves the page's state as it is
confirmDeleteOnly ==
  /\ historyPage.showConfirm
  /\ deleteHistoryByIds(Range(historyPage.selectedIds))
  /\ UNCHANGED historyPage

\* confirmDelete: the dialog's Delete button
confirmDelete ==
  /\ historyPage.showConfirm
  /\ deleteHistoryByIds(Range(historyPage.selectedIds))
  /\ historyPage' = FreshPage

\* the dialog's Cancel button: setShowConfirm(false)
cancelConfirm ==
  /\ mounted
  /\ RenderedView = "history"
  /\ historyPage.showConfirm
  /\ historyPage' = [historyPage EXCEPT !.showConfirm = FALSE]
  /\ lastOp' = [op |-> "cancelConfirm"]
  /\ UNCHANGED <<localStorage, now, mounted, history, analysis, loading, error,
                 activeView, analysisBackView, task>>

\* the page's state across a handler of App: kept while the page stays
\* rendered, discarded with the component otherwise
PageFollows ==
  /\ historyPage' = IF RenderedView = "history" /\ RenderedView' = "history"
                    THEN historyPage ELSE FreshPage
  /\ UNCHANGED <<promptPanel, response, normalized, document, reply>>

PageActs == UNCHANGED <<promptPanel, response, normalized, document, reply>>

\* the popup with its history page; a row opens its entry outside delete mode
HistoryNext ==
  \/ Mount /\ PageFollows
  \/ Close /\ PageFollows
  \/ OpenHistoryPage /\ PageFollows
  \/ HistoryGoBack /\ PageFollows
  \/ \E item \in Range(history) :
       ~historyPage.deleteMode /\ openAnalysisFromHistory(item) /\ PageFollows
  \/ AnalysisGoBack /\ PageFollows
  \/ \E id \in Ids(history) : togglePick(id) /\ PageActs
  \/ handleDeleteButton /\ PageActs
  \/ confirmDelete /\ PageActs
  \/ cancelConfirm /\ PageActs

HistorySpec == Init /\ [][HistoryNext]_vars

(***************************************************************************)
(* normalizeAnalysis on its own: one server response, normalized once.     *)
(***************************************************************************)
\* the popup is closed on an empty store
PopupClosed ==
  /\ localStorage = [k \in {HISTORY_KEY, LEGACY_KEY} |-> Null]
  /\ now = 0
  /\ mounted = FALSE
  /\ FreshState(history, analysis, loading, error, activeView, analysisBackView, task)
  /\ lastOp = [op |-> "init"]
  /\ promptPanel = FreshPanel
  /\ historyPage = FreshPage

\* bodies response.json() can resolve to: any JSON value; a property whose
\* option is Undefined is missing from the object
RawResponses ==
  { Obj(DefinedProps([asset_type |-> a, overview |-> o, target_audience |-> t,
                      sections |-> s, verdicts |-> v, score |-> c])) :
      a \in {Undefined, Str("landing")},
      o \in {Undefined, Null, Num(5), Str("o")},
      t \in {Undefined, Str("devs")},
      s \in {Undefined, Str("x"), Arr(<<Obj([title |-> Str("SEO")])>>)},
      v \in {Undefined, Null, Arr(<<>>), Obj([marketing |-> Str("m")]),
             Obj([marketing |-> Str("m"), strategic |-> Str("s")])},
      c \in {Undefined, Num(3), Arr(<<>>), Obj([reasoning |-> Str("r")]),
             Obj([value |-> Num(8)])} }
  \cup {Null, Num(1), Arr(<<>>)}

TypeError == <<"TypeError">>

\* const safe = normalizeAnalysis(raw)
NormalizeReturns ==
  /\ normalized = Undefined
  /\ ~normalizeAnalysisThrows(response)
  /\ normalized' = Obj(normalizeAnalysis(response))
  /\ UNCHANGED <<appVars, promptPanel, historyPage, response, document, reply>>

\* raw.asset_type on null
NormalizeThrows ==
  /\ normalized = Undefined
  /\ normalizeAnalysisThrows(response)
  /\ normalized' = TypeError
  /\ UNCHANGED <<appVars, promptPanel, historyPage, response, document, reply>>

NormalizeInit ==
  /\ PopupClosed
  /\ NoPage
  /\ response \in RawResponses
  /\ normalized = Undefined

NormalizeNext == NormalizeReturns \/ NormalizeThrows

NormalizeSpec == NormalizeInit /\ [][NormalizeNext]_vars

(***************************************************************************)
(* The score shown for a normalized result: toOverallScore in the analysis *)
(* view, getScoreValue in the history list.  A number that is no integer   *)
(* is Ratio(n, d), the number n/d; NaN is a number without a value.        *)
(***************************************************************************)
Ratio(n, d) == <<"number", n, d>>
NaN == <<"number">>
Bool(b) == <<"boolean", b>>
Numer(v) == v[2]
Denom(v) == IF Len(v) = 3 THEN v[3] ELSE 1

\* the conversion to a number that <=, * and Math.round apply to their
\* operands, for the values responses carry here
ToNumber(v) ==
  CASE v[1] = "number" -> v
    [] v[1] = "boolean" -> Num(IF v[2] THEN 1 ELSE 0)
    [] v[1] = "null" -> Num(0)
    [] v = Str("") -> Num(0)
    [] v = Str("8") -> Num(8)
    [] v = Str("55") -> Num(55)
    [] v = Arr(<<>>) -> Num(0)
    [] OTHER -> NaN

\* a <= b: false when either side is NaN
LessEq(a, b) ==
  LET x == ToNumber(a)
      y == ToNumber(b)
  IN x # NaN /\ y # NaN /\ Numer(x) * Denom(y) <= Numer(y) * Denom(x)

\* a * k for an integer k
Times(a, k) ==
  LET x == ToNumber(a) IN IF x = NaN THEN NaN ELSE Ratio(Numer(x) * k, Denom(x))

\* Math.round: the nearest integer, halves going up
MathRound(a) ==
  LET x == ToNumber(a)
  IN IF x = NaN THEN NaN ELSE Num((2 * Numer(x) + Denom(x)) \div (2 * Denom(x)))

MathMin(a, b) == IF a = NaN \/ b = NaN THEN NaN ELSE IF LessEq(a, b) THEN a ELSE b
MathMax(a, b) == IF a = NaN \/ b = NaN THEN NaN ELSE IF LessEq(a, b) THEN b ELSE a

clampScore(value) ==
  IF value = NaN THEN Num(0) ELSE MathMax(Num(0), MathMin(Num(100), MathRound(value)))

toOverallScore(a) ==
  LET value == OptProp(a.score, "value")
  IN IF value[1] # "number" THEN Num(0)
     ELSE IF LessEq(value, Num(10)) THEN clampScore(Times(value, 10))
     ELSE clampScore(value)

getScoreValue(item) ==
  LET value == Nullish(OptProp(item.score, "value"), Num(0))
  IN IF LessEq(value, Num(10))
     THEN MathMax(Num(0), MathMin(Num(100), MathRound(Times(value, 10))))
     ELSE MathMax(Num(0), MathMin(Num(100), MathRound(value)))

\* score values a response can carry: quarters from -1 to 11, larger
\* numbers, and values that are no numbers
ScoreValues ==
  {Ratio(q, 4) : q \in -4..44}
  \cup {Num(55), Ratio(111, 2), Num(100), Ratio(201, 2), Num(200)}
  \cup {Null, Str(""), Str("8"), Str("55"), Str("high"), Bool(TRUE), Arr(<<>>), Obj(<<>>)}

ScoreResponses ==
  {Obj([score |-> Obj([value |-> v])]) : v \in ScoreValues}
  \cup {Obj([score |-> Obj([reasoning |-> Str("r")])]), Obj(<<>>), Null}

ScoreInit ==
  /\ PopupClosed
  /\ NoPage
  /\ response \in ScoreResponses
  /\ normalized = Undefined

ScoreSpec == ScoreInit /\ [][NormalizeNext]_vars

(***************************************************************************)
(* The content script (content.ts).  A DOM string is Str of the sequence   *)
(* of its pieces, " " being white space; the rendered text of the body is  *)
(* the stretch of characters [from, to) of the page's text.                *)
(***************************************************************************)
BODY_TEXT_LIMIT == 5000
CTA_LIMIT == 20

\* the page's own URL, against which its links are resolved
BaseURLs == { <<"https://", "a.example", "/">>, <<"https://", "twitter.com", "/rook">> }
\* the href attributes links carry; Null for a link without one
HrefAttrs ==
  << Null,
     Str(<<"https://", "linkedin.com", "/in/rook">>),
     Str(<<"/about">>),
     Str(<<"https://", "not", "twitter.com", ".evil", "/">>),
     Str(<<"https://", "x.com", "/rook">>),
     Str(<<"mailto:", "rook@", "instagram.com">>) >>
Schemes == {"https://", "mailto:"}

\* the i-th element of a page in document order
tagOf(i) ==
  CASE i % 4 = 1 -> "button"
    [] i % 4 = 3 -> IF i % 8 = 3 THEN "h2" ELSE "p"
    [] OTHER -> "a"
textOf(i) ==
  CASE i % 5 = 0 -> Str(<<" ">>)
    [] i % 5 = 1 -> Str(<<" ", ToString(i), " ">>)
    [] i % 7 = 0 -> Str(<<>>)
    [] OTHER -> Str(<<ToString(i)>>)
hrefOf(i) == HrefAttrs[((i \div 2) % Len(HrefAttrs)) + 1]

\* a page of n elements; its svgAt-th element, a link, is an SVG <a>
Elements(n, svgAt) ==
  [i \in 1..n |-> [tag |-> tagOf(i), ns |-> IF i = svgAt THEN "svg" ELSE "html",
                   textContent |-> textOf(i), href |-> hrefOf(i)]]

BodyLengths ==
  {0, BODY_TEXT_LIMIT - 1, BODY_TEXT_LIMIT, BODY_TEXT_LIMIT + 1, 2 * BODY_TEXT_LIMIT}

\* the documents a tab can show: with or without a meta description and its
\* content attribute, with or without a body
Pages ==
  { [title |-> t, baseURI |-> b, meta |-> m, body |-> bd, elements |-> Elements(n, sv)] :
      t \in {Str(<<>>), Str(<<"Rook">>)},
      b \in BaseURLs,
      m \in {Null, Obj(<<>>), Obj([content |-> Str(<<>>)]),
             Obj([content |-> Str(<<"AI", " ", "insights">>)])},
      bd \in {Null} \cup {Obj([innerText |-> [from |-> 0, to |-> len]]) : len \in BodyLengths},
      n \in 0..MaxElements,
      sv \in {0, 2} }

\* element.getAttribute(name): null when the attribute is absent
getAttribute(el, name) == IF name \in DOMAIN el[2] THEN el[2][name] ELSE Null
\* x?.getAttribute(name)
OptGetAttribute(el, name) == IF el = Null THEN Undefined ELSE getAttribute(el, name)

\* an || that never takes its right operand
OrNever(x, d) == x

\* x || d
Or(x, d) == IF x \in {Undefined, Null, Str(<<>>)} THEN d ELSE x

\* document.querySelectorAll(tags): the elements with one of the tag names,
\* of whatever namespace, in document order
querySelectorAll(doc, tags) == SelectSeq(doc.elements, LAMBDA el : el.tag \in tags)

\* .map(el => el.textContent?.trim()).filter(Boolean)
trimmedTexts(els) ==
  SelectSeq([i \in 1..Len(els) |-> Str(Trim(els[i].textContent[2]))],
            LAMBDA text : text # Str(<<>>))

\* a slice that keeps the whole list
sliceKeepsAll(list, start, end) == list

\* Array.prototype.slice(start, end), start <= end
slice(list, start, end) ==
  IF Len(list) <= start THEN <<>>
  ELSE SubSeq(list, start + 1, IF Len(list) < end THEN Len(list) ELSE end)

\* String.prototype.slice(start, end) on a stretch of text
sliceText(text, start, end) ==
  LET len == text.to - text.from
      first == IF len < start THEN len ELSE start
      last == IF len < end THEN len ELSE end
  IN [from |-> text.from + first, to |-> text.from + (IF last < first THEN first ELSE last)]

\* a.href of an HTML link: the attribute resolved against the page's URL,
\* "" without the attribute
resolve(base, attr) ==
  IF attr = Null THEN Str(<<>>)
  ELSE IF attr[2] # <<>> /\ Head(attr[2]) \in Schemes THEN attr
  ELSE Str(<<base[1], base[2]>> \o attr[2])

\* href.includes(part), part being one piece
includes(href, part) == \E i \in 1..Len(href[2]) : href[2][i] = part

SocialHosts == {"twitter.com", "linkedin.com", "instagram.com"}

\* document.body is null in a document without a body, and the href of an
\* SVG <a> is an SVGAnimatedString, which has no includes method
extractPageContentThrows(doc) ==
  \/ doc.body = Null
  \/ \E i \in 1..Len(doc.elements) :
       doc.elements[i].tag = "a" /\ doc.elements[i].ns = "svg"

extractPageContent(doc) ==
  [ title |-> doc.title,
    meta_description |-> Or(OptGetAttribute(doc.meta, "content"), Str(<<>>)),
    headings |-> trimmedTexts(querySelectorAll(doc, {"h1", "h2", "h3"})),
    body_text |-> sliceText(doc.body[2].innerText, 0, BODY_TEXT_LIMIT),
    cta_texts |-> slice(trimmedTexts(querySelectorAll(doc, {"button", "a"})), 0, CTA_LIMIT),
    social_links |->
      LET links == querySelectorAll(doc, {"a"})
      IN SelectSeq([i \in 1..Len(links) |-> resolve(doc.baseURI, links[i].href)],
                   LAMBDA href : \E host \in SocialHosts : includes(href, host)) ]

\* the messages the popup and other parts of the extension send
Messages == { [type |-> "EXTRACT_PAGE"], [type |-> "PING"] }

\* chrome.runtime.onMessage listener
onMessage(message) ==
  /\ IF message.type = "EXTRACT_PAGE"
     THEN reply' = IF extractPageContentThrows(document) THEN TypeError
                   ELSE Obj(extractPageContent(document))
     ELSE UNCHANGED reply
  /\ UNCHANGED <<appVars, promptPanel, historyPage, response, normalized, document>>

ContentInit ==
  /\ PopupClosed
  /\ NoCall
  /\ document \in Pages
  /\ reply = Undefined

ContentNext == \E message \in Messages : onMessage(message)

ContentSpec == ContentInit /\ [][ContentNext]_vars

(***************************************************************************)
(* The legacy popup: one list of results under LEGACY_KEY, without ids,    *)
(* and no way to delete.  Its analyzePage awaits and fails as the current  *)
(* one does; the result is saved by its own saveToHistory.                 *)
(***************************************************************************)
LEGACY_LIMIT == 5

\* bodies the legacy popup's response.json() can resolve to
LegacyBodies == {RawPartial, RawEmpty, Null, Unparseable}

\* a save that keeps every result
legacyUpdatedUncut(data, list) == <<data>> \o list

\* const updated = [data, ...history].slice(0, 5)
legacyUpdated(data, list) == slice(<<data>> \o list, 0, LEGACY_LIMIT)

\* useEffect(() => {...}, []): load the list
legacyMount ==
  /\ ~mounted
  /\ mounted' = TRUE
  /\ LET stored == localStorage[LEGACY_KEY]
     IN IF Truthy(stored) THEN history' = JSONparse(stored) ELSE UNCHANGED history
  /\ lastOp' = [op |-> "mount", reads |-> <<LEGACY_KEY>>, migrated |-> FALSE]
  /\ UNCHANGED <<localStorage, now, analysis, loading, error, activeView,
                 analysisBackView, task>>

\* the Analyze button, disabled while loading
legacyAnalyzePage ==
  /\ mounted
  /\ ~loading
  /\ loading' = TRUE
  /\ error' = Null
  /\ analysis' = Null
  /\ task' = [pc |-> "query", history |-> history, tab |-> Undefined]
  /\ lastOp' = Other
  /\ UNCHANGED <<localStorage, now, mounted, history, activeView, analysisBackView>>

\* response.json() settled: normalize, setAnalysis, saveToHistory
legacyJsonSettled(body) ==
  /\ task.pc = "json"
  /\ IF body = Unparseable THEN BackendFailure("body")
     ELSE IF normalizeAnalysisThrows(body) THEN BackendFailure("shape")
     ELSE LET safe == normalizeAnalysis(body)
              updated == legacyUpdated(safe, savedOnto)
          IN /\ analysis' = Obj(safe)
             /\ history' = updated
             /\ localStorage' = [localStorage EXCEPT ![LEGACY_KEY] = JSONstringify(updated)]
             /\ loading' = FALSE
             /\ task' = Idle
             /\ lastOp' = [op |-> "legacySaved", data |-> safe]
             /\ UNCHANGED <<now, mounted, error, activeView, analysisBackView>>

\* a row of the saved list: setAnalysis(item), setError(null)
legacyOpenSaved(item) ==
  /\ mounted
  /\ analysis' = Obj(item)
  /\ error' = Null
  /\ lastOp' = Other
  /\ UNCHANGED <<localStorage, now, mounted, history, loading, activeView,
                 analysisBackView, task>>

LegacyNext ==
  \/ legacyMount /\ PanelUntouched
  \/ Close /\ PanelUntouched
  \/ legacyAnalyzePage /\ PanelUntouched
  \/ \E tab \in TabResults : TabsQueryResolved(tab) /\ PanelUntouched
  \/ TabsQueryRejected /\ PanelUntouched
  \/ ExecuteScriptResolved /\ PanelUntouched
  \/ ExecuteScriptRejected /\ PanelUntouched
  \/ \E lastError \in LastErrors : MessageCallback(lastError) /\ PanelUntouched
  \/ \E outcome \in FetchOutcomes : FetchSettled(outcome) /\ PanelUntouched
  \/ \E body \in LegacyBodies : legacyJsonSettled(body) /\ PanelUntouched
  \/ \E item \in Range(history) : legacyOpenSaved(item) /\ PanelUntouched

LegacyInit ==
  /\ PopupClosed
  /\ NoCall
  /\ NoPage

LegacySpec == LegacyInit /\ [][LegacyNext]_vars

(***************************************************************************)
(* Properties.                                                             *)
(***************************************************************************)
\* the list a load reads from the current-schema record
StoredHistory ==
  IF localStorage[HISTORY_KEY] = Null THEN <<>> ELSE JSONparse(localStorage[HISTORY_KEY])

BackendErrorMessage == Str("Backend error while analyzing page")

\* C1: when the analysis in flight saves its result, the in-memory list and
\* the persisted record hold, behind the new entry, exactly the entries they
\* held just before: an entry deleted meanwhile does not reappear and no
\* entry is lost.
C1_DeletedEntriesStayDeleted ==
  [][lastOp'.op = "analysisSaved" =>
       /\ Range(Tail(history')) = Range(history)
       /\ Range(Tail(StoredHistory')) = Range(StoredHistory)]_vars

\* C2, as stated: when the backend fails, the error message is set, the
\* history is what it was when the request started and the analysis is null.
C2_HistoryAndAnalysisAsAtRequest ==
  [][lastOp'.op = "backendError" /\ lastOp'.cause \in {"status", "body", "shape"} =>
       /\ error' = BackendErrorMessage
       /\ history' = task.history
       /\ (localStorage'[HISTORY_KEY] # Null => StoredHistory' = task.history)
       /\ analysis' = Null]_vars

\* C2, amended: when the backend fails, the error message is set and loading
\* is false; the failure changes neither the in-memory list, nor the
\* persisted record, nor the current analysis.  The list is the one of the
\* request's start less the entries deleted meanwhile, and the analysis is
\* null or an entry of that list opened meanwhile.
C2_BackendFailureWritesNothing ==
  [][lastOp'.op = "backendError" =>
       /\ error' = BackendErrorMessage
       /\ loading' = FALSE
       /\ history' = history
       /\ localStorage' = localStorage
       /\ analysis' = analysis
       /\ \E ids \in SUBSET Ids(task.history) :
            history' = SelectSeq(task.history, LAMBDA item : item.id \notin ids)
       /\ analysis' \in {Null} \cup {Obj(e) : e \in Range(task.history)}]_vars

C2_Witness ==
  /\ lastOp.op = "backendError"
  /\ lastOp.cause = "status"
  /\ error = BackendErrorMessage
  /\ history # <<>>
  /\ analysis = Null

\* C3: once a triggered analysis has ended in a failure, loading is false.
C3_FailureReleasesLoading ==
  lastOp.op \in {"noActiveTab", "rejected", "extractorUnreachable", "backendError"}
    => loading = FALSE

\* C4: after saveToHistory appended an entry, a load of the store reads the
\* current-schema record and yields that entry first, followed by the list
\* as it was before the append, in the same order.
C4_AppendThenLoad ==
  [][lastOp'.op = "analysisSaved" =>
       /\ Truthy(localStorage'[HISTORY_KEY])
       /\ Head(JSONparse(localStorage'[HISTORY_KEY])) = Head(history')
       /\ Tail(JSONparse(localStorage'[HISTORY_KEY])) = history]_vars

\* C5: once the current-schema key holds a record, a load reads that key
\* only, migrates nothing, takes the record's list as the history and leaves
\* storage alone.
C5_MigrationAtMostOnce ==
  [][localStorage[HISTORY_KEY] # Null /\ lastOp'.op = "mount" =>
       /\ lastOp'.reads = <<HISTORY_KEY>>
       /\ lastOp'.migrated = FALSE
       /\ history' = JSONparse(localStorage[HISTORY_KEY])
       /\ localStorage' = localStorage]_vars

\* a load after the store was emptied, with the legacy list still in storage
C5_Witness ==
  /\ mounted
  /\ lastOp.op = "mount"
  /\ lastOp.reads = <<HISTORY_KEY>>
  /\ history = <<>>
  /\ localStorage[LEGACY_KEY] # Null
  /\ Len(JSONparse(localStorage[LEGACY_KEY])) >= 2

\* C6: right after a migration, createdAt strictly decreases with the index.
C6_MigratedCreatedAtDecreasing ==
  lastOp.op = "mount" /\ lastOp.migrated =>
    \A i \in 1..(Len(history) - 1) : history[i].createdAt[2] > history[i + 1].createdAt[2]

\* C7: no two entries of the history, in memory or persisted, share an id.
C7_IdsUnique ==
  /\ \A i, j \in 1..Len(history) : i # j => history[i].id # history[j].id
  /\ \A i, j \in 1..Len(StoredHistory) : i # j => StoredHistory[i].id # StoredHistory[j].id

KeptIndexes(list, ids) == {i \in 1..Len(list) : list[i].id \notin ids}
\* the k-th smallest element of a set of indexes
NthOf(S, k) == CHOOSE i \in S : Cardinality({j \in S : j <= i}) = k

\* C8: deleteMany(ids) leaves, in memory and in the persisted record, the
\* entries whose id is not in ids, each at its old rank among them, and no
\* entry whose id is in ids.
C8_DeleteManyRemovesExactly ==
  [][lastOp'.op = "deleteMany" => \A ids \in DeletableIds : deleteHistoryByIds(ids) =>
       LET kept == KeptIndexes(history, ids)
       IN /\ Len(history') = Cardinality(kept)
          /\ \A k \in 1..Len(history') : history'[k] = history[NthOf(kept, k)]
          /\ Ids(history') \cap ids = {}
          /\ localStorage'[HISTORY_KEY] # Null
          /\ JSONparse(localStorage'[HISTORY_KEY]) = history']_vars

\* a deleteMany that removed an entry and left at least two
C8_Witness ==
  /\ lastOp.op = "deleteMany"
  /\ lastOp.removed >= 1
  /\ Len(history) >= 2

\* C9: deleteMany(ids) with no stored id in ids leaves the list as it was,
\* sets no error, and writes the record with the list's content: the same
\* text when the record existed.
C9_DeleteManyNoMatch ==
  [][lastOp'.op = "deleteMany" => \A ids \in DeletableIds :
       deleteHistoryByIds(ids) /\ ids \cap Ids(history) = {} =>
         /\ history' = history
         /\ error' = error
         /\ localStorage'[HISTORY_KEY] # Null
         /\ JSONparse(localStorage'[HISTORY_KEY]) = history
         /\ (localStorage[HISTORY_KEY] # Null => localStorage' = localStorage)]_vars

\* a deleteMany that matched nothing in a non-empty store
C9_Witness ==
  /\ lastOp.op = "deleteMany"
  /\ lastOp.removed = 0
  /\ Len(history) >= 1
  /\ localStorage[HISTORY_KEY] # Null

DataKeys == {"asset_type", "overview", "target_audience", "sections", "verdicts", "score"}

\* C10: a successful analysis adds exactly one entry, at the head of the
\* list as it was: the normalized result with an id no stored entry has and
\* a createdAt; the current analysis is the normalized result, the view is
\* the analysis view and its back target is home.
C10_SuccessAddsOneEntryAtHead ==
  [][\A body \in RawBodies : JsonSettled(body) /\ lastOp'.op = "analysisSaved" =>
       LET safe == normalizeAnalysis(body)
           entry == Head(history')
       IN /\ Len(history') = Len(history) + 1
          /\ Tail(history') = history
          /\ StoredHistory' = history'
          /\ [k \in DataKeys |-> entry[k]] = safe
          /\ entry.id \notin Ids(history)
          /\ entry.createdAt[1] = "number"
          /\ analysis' = Obj(safe)
          /\ activeView' = "analysis"
          /\ analysisBackView' = "home"]_vars

(***************************************************************************)
(* The analyzePage sequence.                                               *)
(***************************************************************************)
\* how far an invocation of analyzePage has come: fetch has been called once
\* the position is "fetch", and is never called from another position
PcRank(pc) ==
  CASE pc = "idle" -> 0
    [] pc = "query" -> 1
    [] pc = "inject" -> 2
    [] pc = "message" -> 3
    [] pc = "fetch" -> 4
    [] pc = "json" -> 5

\* the ways an invocation of analyzePage fails
Failures == {"noActiveTab", "rejected", "extractorUnreachable", "backendError"}

\* C11: an invocation of analyzePage only moves forward, one step at a time,
\* or ends, so it calls fetch at most once; every failure ends it; and a new
\* invocation starts only with the user's click on the enabled Analyze button.
C11_OnePostPerTrigger ==
  [][/\ (task' # task =>
          task'.pc = "idle" \/ PcRank(task'.pc) = PcRank(task.pc) + 1)
     /\ (lastOp'.op \in Failures => task'.pc = "idle")
     /\ (task.pc = "idle" /\ task'.pc # "idle" =>
          /\ mounted /\ RenderedView = "home" /\ ~loading
          /\ task'.pc = "query" /\ loading')]_vars

\* the request failed on the network after it was sent, and the Analyze
\* button is enabled again
C11_Witness ==
  /\ lastOp.op = "backendError"
  /\ lastOp.cause = "network"
  /\ task.pc = "idle"
  /\ ~loading
  /\ RenderedView = "home"

\* the messages of the two extraction failures
ExtractionErrorMessages(op) ==
  IF op = "noActiveTab" THEN {Str("No active tab found")}
  ELSE {Nullish(Prop(e, "message"), Str("Extension error")) : e \in LastErrors \ {Undefined}}

\* C12, as stated: when the tab has no id or the extractor cannot be
\* reached, the analysis ends with an error message and loading false before
\* any POST, and the history is the one of the trigger and the analysis null.
C12_HistoryAndAnalysisAsAtTrigger ==
  [][lastOp'.op \in {"noActiveTab", "extractorUnreachable"} =>
       /\ error' \in ExtractionErrorMessages(lastOp'.op)
       /\ loading' = FALSE
       /\ PcRank(task.pc) < PcRank("fetch") /\ task'.pc = "idle"
       /\ history' = task.history
       /\ (localStorage'[HISTORY_KEY] # Null => StoredHistory' = task.history)
       /\ analysis' = Null]_vars

\* C12, amended: when the tab has no id or the extractor cannot be reached,
\* the analysis ends there with the error message set and loading false,
\* before fetch was called; the failure changes neither the in-memory list,
\* nor the persisted record, nor the current analysis.  The list is the one
\* of the trigger less the entries deleted meanwhile, and the analysis is
\* null or an entry of that list opened meanwhile.
C12_ExtractionFailureWritesNothing ==
  [][lastOp'.op \in {"noActiveTab", "extractorUnreachable"} =>
       /\ error' \in ExtractionErrorMessages(lastOp'.op)
       /\ loading' = FALSE
       /\ PcRank(task.pc) < PcRank("fetch") /\ task'.pc = "idle"
       /\ history' = history
       /\ localStorage' = localStorage
       /\ analysis' = analysis
       /\ \E ids \in SUBSET Ids(task.history) :
            history' = SelectSeq(task.history, LAMBDA item : item.id \notin ids)
       /\ analysis' \in {Null} \cup {Obj(e) : e \in Range(task.history)}]_vars

\* the extractor could not be reached, with entries in the history
C12_Witness ==
  /\ lastOp.op = "extractorUnreachable"
  /\ error = Str("Extension error")
  /\ ~loading
  /\ history # <<>>
  /\ analysis = Null

\* the six fields of an entry, without id and createdAt
DataOf(entry) == [k \in DataKeys |-> entry[k]]

\* C13: fetch is called only from the callback that received the extractor's
\* reply; and while an analysis is in flight, the only step other than a
\* deleteMany or the popup's closing that changes the history, in memory or
\* persisted, is the one that ends it after response.json() resolved: it
\* stores the normalized body, which is also the current analysis.
C13_ExtractSubmitNormalizePersist ==
  [][/\ (task'.pc = "fetch" /\ task.pc # "fetch" => task.pc = "message")
     /\ (/\ task.pc # "idle"
         /\ history' # history \/ localStorage' # localStorage
         /\ lastOp'.op \notin {"deleteMany", "close"}
         => /\ task.pc = "json"
            /\ lastOp'.op = "analysisSaved"
            /\ \E body \in RawBodies :
                 /\ ~normalizeAnalysisThrows(body)
                 /\ analysis' = Obj(normalizeAnalysis(body))
                 /\ DataOf(Head(history')) = normalizeAnalysis(body)
                 /\ StoredHistory' = history')]_vars

\* a second analysis has gone through all four steps
C13_Witness ==
  /\ lastOp.op = "analysisSaved"
  /\ activeView = "analysis"
  /\ Len(history) >= 2
  /\ Head(history).id[1] = "h"
  /\ analysis = Obj(DataOf(Head(history)))

\* C14: while an invocation of analyzePage is pending, loading is true; and
\* an invocation starts only while loading is false and none is pending, so
\* two are never pending together.
C14_OneRequestOutstanding ==
  /\ [](task.pc # "idle" => loading)
  /\ [][task'.pc = "query" /\ task.pc # "query" => ~loading /\ task.pc = "idle"]_vars

\* the request is outstanding and the home view shows the disabled button
C14_Witness ==
  /\ loading
  /\ task.pc = "fetch"
  /\ RenderedView = "home"
  /\ history # <<>>

(***************************************************************************)
(* The manual URL flow.                                                    *)
(***************************************************************************)
\* empty or made of spaces only
Blank(s) == \A i \in 1..Len(s) : s[i] = " "

\* C15: "Analyze URL" on a blank URL sets the message asking for a URL, on
\* a text that is no URL the message asking for a valid one; in both cases
\* it starts no analysis and no request, and leaves the history, the
\* persisted record, the current analysis, the view and the panel as they
\* were.
C15_InvalidUrlNotAttempted ==
  [][/\ lastOp'.op = "promptAnyLink"
     /\ Blank(promptPanel.promptUrl) \/ newURLThrows(promptPanel.promptUrl)
     => /\ error' = IF Blank(promptPanel.promptUrl)
                    THEN Str("Please enter a URL first")
                    ELSE Str("Enter a valid URL (example: https://example.com)")
        /\ task' = task /\ loading' = loading
        /\ history' = history /\ localStorage' = localStorage
        /\ analysis' = analysis
        /\ activeView' = activeView /\ RenderedView' = "home"
        /\ promptPanel' = promptPanel]_vars

\* a text that is no URL was submitted, with an entry in the history and a
\* current analysis
C15_Witness ==
  /\ lastOp.op = "promptAnyLink"
  /\ error = Str("Enter a valid URL (example: https://example.com)")
  /\ ~Blank(promptPanel.promptUrl)
  /\ history # <<>>
  /\ analysis # Null

(***************************************************************************)
(* Normalization.                                                          *)
(***************************************************************************)
\* the field when it has the shape its type names, else the default
FieldOrDefault(field, tag, default) == IF field[1] = tag THEN field ELSE default

\* C16: for every response normalizeAnalysis returns an object whose six
\* keys are defined, each holding the response's field when that is a string
\* (asset_type, overview, target_audience), a list (sections) or a mapping
\* (verdicts, score), and the default otherwise.
C16_SixKeysDefaulted ==
  normalized # Undefined =>
    /\ IsObject(normalized)
    /\ DOMAIN normalized[2] = DataKeys
    /\ \A k \in DataKeys : normalized[2][k] # Undefined
    /\ normalized[2].asset_type =
         FieldOrDefault(Prop(response, "asset_type"), "string", Str("unknown"))
    /\ normalized[2].overview = FieldOrDefault(Prop(response, "overview"), "string", Str(""))
    /\ normalized[2].target_audience =
         FieldOrDefault(Prop(response, "target_audience"), "string", Str(""))
    /\ normalized[2].sections = FieldOrDefault(Prop(response, "sections"), "array", Arr(<<>>))
    /\ normalized[2].verdicts = FieldOrDefault(Prop(response, "verdicts"), "object", Obj(<<>>))
    /\ normalized[2].score =
         FieldOrDefault(Prop(response, "score"), "object", Obj([value |-> Num(0)]))

\* C17: in every normalized result score.value is a number and the two
\* verdicts are strings.
C17_NestedFieldsDefined ==
  IsObject(normalized) =>
    /\ Prop(normalized[2].score, "value")[1] = "number"
    /\ Prop(normalized[2].verdicts, "marketing")[1] = "string"
    /\ Prop(normalized[2].verdicts, "strategic")[1] = "string"

(***************************************************************************)
(* The page snapshot.                                                      *)
(***************************************************************************)
\* the places in the document of the buttons and links with a text that is
\* not blank
CtaIndexes ==
  {i \in 1..Len(document.elements) :
     /\ document.elements[i].tag \in {"button", "a"}
     /\ ~Blank(document.elements[i].textContent[2])}

\* C18: in every snapshot the content script replies with, the body text is
\* the first 5000 characters of the body's text, or all of it when shorter,
\* and the CTA texts are the trimmed texts of the first 20 buttons and links
\* that have one, in document order, or of all of them when fewer.
C18_SnapshotCaps ==
  IsObject(reply) =>
    LET snapshot == reply[2]
        text == document.body[2].innerText
        ncta == Cardinality(CtaIndexes)
    IN /\ snapshot.body_text.to - snapshot.body_text.from <= 5000
       /\ snapshot.body_text.from = text.from
       /\ snapshot.body_text.to = IF text.to - text.from > 5000
                                  THEN text.from + 5000 ELSE text.to
       /\ Len(snapshot.cta_texts) <= 20
       /\ Len(snapshot.cta_texts) = IF ncta > 20 THEN 20 ELSE ncta
       /\ \A k \in 1..Len(snapshot.cta_texts) :
            snapshot.cta_texts[k] =
              Str(Trim(document.elements[NthOf(CtaIndexes, k)].textContent[2]))

\* a snapshot of a page with more than 5000 characters of text and more
\* than 20 buttons and links with a text
C18_Witness ==
  /\ IsObject(reply)
  /\ document.body[2].innerText.to > 5000
  /\ reply[2].body_text.to = 5000
  /\ Cardinality(CtaIndexes) > 20
  /\ Len(reply[2].cta_texts) = 20

\* the places in the document of the links, of either namespace, whose
\* resolved URL contains an allow-listed host
SocialIndexes ==
  {i \in 1..Len(document.elements) :
     /\ document.elements[i].tag = "a"
     /\ \E host \in SocialHosts :
          includes(resolve(document.baseURI, document.elements[i].href), host)}

\* C19: for every page with a body the content script replies with a
\* snapshot whose social links are the resolved URLs of the page's links
\* that contain an allow-listed host, in document order, and nothing else.
C19_SocialLinksExact ==
  reply # Undefined /\ document.body # Null =>
    /\ IsObject(reply)
    /\ Len(reply[2].social_links) = Cardinality(SocialIndexes)
    /\ \A k \in 1..Cardinality(SocialIndexes) :
         reply[2].social_links[k] =
           resolve(document.baseURI, document.elements[NthOf(SocialIndexes, k)].href)

\* C20: in every snapshot of a page that has no meta description element,
\* or one without a content attribute or with an empty one, the meta
\* description is the empty string; otherwise it is the attribute's value.
C20_MetaDescriptionDefault ==
  IsObject(reply) =>
    reply[2].meta_description =
      IF document.meta = Null THEN Str(<<>>)
      ELSE IF "content" \notin DOMAIN document.meta[2] THEN Str(<<>>)
      ELSE document.meta[2].content

\* a snapshot of a page whose meta description element has no content
\* attribute
C20_Witness ==
  /\ IsObject(reply)
  /\ document.meta = Obj(<<>>)
  /\ reply[2].meta_description = Str(<<>>)

\* every element of the page is an HTML element
HtmlOnly == \A i \in 1..Len(document.elements) : document.elements[i].ns = "html"

\* C21: for every page of HTML elements, whatever it lacks, the content
\* script replies with a snapshot, in which the value of each absent element
\* is the empty string or the empty list.
C21_NeverFailsOnMissing ==
  reply # Undefined /\ HtmlOnly =>
    /\ IsObject(reply)
    /\ (document.meta = Null => reply[2].meta_description = Str(<<>>))
    /\ (querySelectorAll(document, {"h1", "h2", "h3"}) = <<>> => reply[2].headings = <<>>)
    /\ (document.body = Null => reply[2].body_text.to = reply[2].body_text.from)
    /\ (querySelectorAll(document, {"button", "a"}) = <<>> => reply[2].cta_texts = <<>>)
    /\ (querySelectorAll(document, {"a"}) = <<>> => reply[2].social_links = <<>>)

(***************************************************************************)
(* Views.                                                                  *)
(***************************************************************************)
\* C22: the step that opens an entry from the history page makes one of the
\* history's entries the current analysis and shows the analysis view; it
\* starts no analysis and no request, and leaves the in-memory history and
\* the persisted record as they were.
C22_OpenFromHistoryOffline ==
  [][RenderedView = "history" /\ activeView' = "analysis" /\ analysisBackView' = "history" =>
       /\ analysis' \in {Obj(e) : e \in Range(history)}
       /\ RenderedView' = "analysis"
       /\ task' = task /\ loading' = loading
       /\ history' = history
       /\ localStorage' = localStorage]_vars

\* the second of several saved analyses is open, nothing is in flight
C22_Witness ==
  /\ RenderedView = "analysis"
  /\ analysisBackView = "history"
  /\ Len(history) >= 2
  /\ analysis = Obj(history[2])
  /\ task.pc = "idle" /\ ~loading

(***************************************************************************)
(* The displayed score.                                                    *)
(***************************************************************************)
\* the score the claim gives for a stored value: 10 times a number from 0
\* to 10, a number from 10 to 100 itself, both to the nearest integer, 0
\* below 0, 100 above 100, and 0 for what is no number
ClaimedScore(value) ==
  IF value[1] # "number" THEN 0
  ELSE LET n == Numer(value)
           d == Denom(value)
       IN IF n < 0 THEN 0
          ELSE IF n <= 10 * d THEN (20 * n + d) \div (2 * d)
          ELSE IF n <= 100 * d THEN (2 * n + d) \div (2 * d)
          ELSE 100

\* C23: for every normalized result the analysis view and the history list
\* show the same score, an integer from 0 to 100: the one the claim gives
\* for the stored value.
C23_DisplayedScore ==
  IsObject(normalized) =>
    LET value == OptProp(normalized[2].score, "value")
    IN /\ ClaimedScore(value) \in 0..100
       /\ toOverallScore(normalized[2]) = Num(ClaimedScore(value))
       /\ getScoreValue(normalized[2]) = toOverallScore(normalized[2])

(***************************************************************************)
(* The store and the views of one popup.                                   *)
(***************************************************************************)
\* C24: while the popup is open and the current-schema record exists, the
\* history list in memory is the parsed content of the record: after the
\* load, the migration, every append and every delete.
C24_MemoryIsParsedRecord ==
  mounted /\ localStorage[HISTORY_KEY] # Null => history = StoredHistory

C24_Witness ==
  /\ mounted /\ localStorage[HISTORY_KEY] # Null
  /\ lastOp.op = "deleteMany" /\ lastOp.removed >= 1
  /\ Len(history) >= 1
  /\ history = StoredHistory

\* C25: whenever the active view is the analysis view there is a current
\* analysis, whatever the order of triggers, completions, failures, opened
\* entries and Go Backs.
C25_AnalysisViewHasAnalysis ==
  activeView = "analysis" => analysis # Null

\* an entry opened from the history while an analysis is in flight
C25_Witness ==
  /\ activeView = "analysis" /\ analysis # Null
  /\ task.pc = "fetch" /\ loading

\* the analysis shown is a history entry (it carries the entry's id), not
\* the result setAnalysis(safe) of a fresh analysis
FromHistory(a) == "id" \in DOMAIN a[2]

\* C26: leaving the analysis view of an open popup leads to the history
\* page when the analysis shown was opened from a history entry, and to the
\* home view when it is the result of a fresh analysis.
C26_GoBackToOrigin ==
  [][mounted' /\ RenderedView = "analysis" /\ RenderedView' # "analysis" =>
       RenderedView' = (IF FromHistory(analysis) THEN "history" ELSE "home")]_vars

\* back on the history page from an entry opened while an analysis was in
\* flight
C26_Witness ==
  /\ RenderedView = "history" /\ analysisBackView = "history"
  /\ analysis # Null /\ FromHistory(analysis)
  /\ task.pc # "idle"

(***************************************************************************)
(* The history page.                                                       *)
(***************************************************************************)
\* C27: Delete pressed in delete mode with nothing selected shows the
\* notice, opens no dialog and deletes nothing; the dialog opens only in
\* delete mode with an id selected; a delete is made only from the dialog.
C27_EmptySelectionIsRefused ==
  [][/\ (lastOp'.op = "deleteButton" /\ historyPage.deleteMode
            /\ historyPage.selectedIds = <<>> =>
            /\ historyPage'.localNotice = SelectNotice
            /\ historyPage'.showConfirm = historyPage.showConfirm
            /\ history' = history /\ localStorage' = localStorage)
     /\ (~historyPage.showConfirm /\ historyPage'.showConfirm =>
            historyPage.deleteMode /\ historyPage.selectedIds # <<>>)
     /\ (lastOp'.op = "deleteMany" => historyPage.showConfirm)]_vars

C27_Witness ==
  /\ lastOp.op = "deleteButton"
  /\ historyPage.deleteMode /\ historyPage.selectedIds = <<>>
  /\ historyPage.localNotice = SelectNotice /\ ~historyPage.showConfirm
  /\ Len(history) >= 1

\* C28: confirming deletes exactly the entries whose ids are selected, in
\* memory and in the record, and leaves the selection empty, delete mode
\* off, the dialog closed and no notice; cancelling closes the dialog and
\* leaves the history, the record and the selection as they are.
C28_ConfirmDeletesSelection ==
  [][/\ (lastOp'.op = "deleteMany" =>
            /\ Range(historyPage.selectedIds) \subseteq Ids(history)
            /\ history' = filterOutIds(history, Range(historyPage.selectedIds))
            /\ StoredHistory' = history'
            /\ lastOp'.removed = Len(historyPage.selectedIds)
            /\ historyPage' = FreshPage)
     /\ (lastOp'.op = "cancelConfirm" =>
            /\ history' = history /\ localStorage' = localStorage
            /\ historyPage'.selectedIds = historyPage.selectedIds
            /\ ~historyPage'.showConfirm)]_vars

C28_Witness ==
  /\ lastOp.op = "deleteMany" /\ lastOp.removed = 2
  /\ Len(history) >= 1
  /\ historyPage = FreshPage

\* C29: the selection holds no id twice, and toggling any id twice in a
\* row gives a selection of the same ids.
C29_SelectionIsASet ==
  LET sel == historyPage.selectedIds
  IN /\ \A i, j \in 1..Len(sel) : sel[i] = sel[j] => i = j
     /\ \A id \in Ids(history) : Range(toggled(toggled(sel, id), id)) = Range(sel)

\* two ids picked, the first row's last
C29_Witness ==
  /\ lastOp.op = "togglePick"
  /\ Len(historyPage.selectedIds) = 2
  /\ Len(history) >= 2
  /\ historyPage.selectedIds[2] = history[1].id

(***************************************************************************)
(* The legacy store.                                                       *)
(***************************************************************************)
\* the list the legacy popup loads
StoredLegacy ==
  IF localStorage[LEGACY_KEY] = Null THEN <<>> ELSE JSONparse(localStorage[LEGACY_KEY])

\* C30: the legacy list never holds more than 5 results, and a save puts
\* the new result first, followed by the first 4 of the results stored
\* before, in their order.
C30_LegacyKeepsFiveNewestFirst ==
  /\ [](Len(StoredLegacy) <= LEGACY_LIMIT /\ Len(history) <= LEGACY_LIMIT)
  /\ [][lastOp'.op = "legacySaved" =>
          /\ StoredLegacy'[1] = lastOp'.data
          /\ Tail(StoredLegacy') =
               SubSeq(StoredLegacy, 1,
                      IF Len(StoredLegacy) < LEGACY_LIMIT THEN Len(StoredLegacy)
                      ELSE LEGACY_LIMIT - 1)
          /\ history' = StoredLegacy']_vars

\* a save onto a full list of differing results: the oldest was dropped
C30_Witness ==
  /\ lastOp.op = "legacySaved"
  /\ Len(StoredLegacy) = LEGACY_LIMIT
  /\ StoredLegacy[1] # StoredLegacy[2]
  /\ StoredLegacy[LEGACY_LIMIT] # StoredLegacy[LEGACY_LIMIT - 1]
  /\ StoredLegacy[1] = normalizeAnalysis(RawEmpty)

====
